---- MODULE Spec2Model ----
(***************************************************************************)
(* Model of pkg/kubelet/dockershim/metrics/metrics.go: the eight metric    *)
(* series of the docker shim, their one-time registration into the shared  *)
(* legacy registry, and the two elapsed-time helpers.                      *)
(***************************************************************************)
EXTENDS Integers, Sequences, FiniteSets, TLC

(***************************************************************************)
(* Bounds of the model.                                                    *)
(***************************************************************************)
NumCallers == 3      \* goroutines that call Register()
MaxCalls == 2        \* calls to Register() each goroutine makes
MaxForeign == 1      \* series other packages installed under one of our identities

Callers == 1..NumCallers

(***************************************************************************)
(* Metric keys and subsystem (const block).                                *)
(***************************************************************************)
DockerOperationsKey == "docker_operations_total"
DockerOperationsLatencyKey == "docker_operations_duration_seconds"
DockerOperationsErrorsKey == "docker_operations_errors_total"
DockerOperationsTimeoutKey == "docker_operations_timeout_total"
DeprecatedDockerOperationsKeyDup == "docker_operations_total"
DeprecatedDockerOperationsKey == "docker_operations"
DeprecatedDockerOperationsLatencyKey == "docker_operations_latency_microseconds"
DeprecatedDockerOperationsErrorsKey == "docker_operations_errors"
DeprecatedDockerOperationsTimeoutKey == "docker_operations_timeout"
kubeletSubsystem == "kubelet"

(***************************************************************************)
(* The eight series (var block).  A series is its options: subsystem,      *)
(* name, kind, label dimensions and deprecation version ("" when current). *)
(***************************************************************************)
DockerOperationsLatency ==
    [subsystem |-> kubeletSubsystem, name |-> DockerOperationsLatencyKey,
     kind |-> "Histogram", labels |-> <<"operation_type">>, deprecated |-> ""]
DockerOperations ==
    [subsystem |-> kubeletSubsystem, name |-> DockerOperationsKey,
     kind |-> "Counter", labels |-> <<"operation_type">>, deprecated |-> ""]
DockerOperationsErrors ==
    [subsystem |-> kubeletSubsystem, name |-> DockerOperationsErrorsKey,
     kind |-> "Counter", labels |-> <<"operation_type">>, deprecated |-> ""]
DockerOperationsTimeout ==
    [subsystem |-> kubeletSubsystem, name |-> DockerOperationsTimeoutKey,
     kind |-> "Counter", labels |-> <<"operation_type">>, deprecated |-> ""]
DeprecatedDockerOperationsLatency ==
    [subsystem |-> kubeletSubsystem, name |-> DeprecatedDockerOperationsLatencyKey,
     kind |-> "Summary", labels |-> <<"operation_type">>, deprecated |-> "1.14.0"]
DeprecatedDockerOperations ==
    [subsystem |-> kubeletSubsystem, name |-> DeprecatedDockerOperationsKey,
     kind |-> "Counter", labels |-> <<"operation_type">>, deprecated |-> "1.14.0"]
DeprecatedDockerOperationsErrors ==
    [subsystem |-> kubeletSubsystem, name |-> DeprecatedDockerOperationsErrorsKey,
     kind |-> "Counter", labels |-> <<"operation_type">>, deprecated |-> "1.14.0"]
DeprecatedDockerOperationsTimeout ==
    [subsystem |-> kubeletSubsystem, name |-> DeprecatedDockerOperationsTimeoutKey,
     kind |-> "Counter", labels |-> <<"operation_type">>, deprecated |-> "1.14.0"]

\* The package-level metric variables, in declaration order.
AllSeries ==
    <<DockerOperationsLatency, DockerOperations, DockerOperationsErrors,
      DockerOperationsTimeout, DeprecatedDockerOperationsLatency,
      DeprecatedDockerOperations, DeprecatedDockerOperationsErrors,
      DeprecatedDockerOperationsTimeout>>

NumSeries == Len(AllSeries)
SeriesIdx == 1..NumSeries

\* The identity under which the registry knows a series.
Identity(s) == <<s.subsystem, s.name>>

(***************************************************************************)
(* Register(): the body handed to registerMetrics.Do, one MustRegister per *)
(* statement, in statement order.  Entries are indexes into AllSeries.     *)
(***************************************************************************)
RegisterBodyShort == <<1, 2, 3, 4, 5, 6, 7>>
RegisterBody == <<1, 2, 3, 4, 5, 6, 7, 8>>

\* registerMetrics.Do: the fast path returns at once when the pass is done.
FastPathReturns(d) == d

\* registerMetrics.Do: under the mutex the body runs only if not yet done.
SlowPathRunsAlways(d) == TRUE
SlowPathRuns(d) == ~d

\* registerMetrics.Do: value of the done flag while the body is running; the
\* flag is stored only by the deferred store that follows the body.
DoneWhileRunningEarly == TRUE
DoneWhileRunning == FALSE

\* registerMetrics.Do: the deferred store runs when the body panics, too.
DoneAfterPanicReset == FALSE
DoneAfterPanic == TRUE

\* Register() has no recover: a panic of MustRegister leaves Register() as a
\* panic of the calling goroutine.
RegisterRecoversAlways == TRUE
RegisterRecovers == FALSE

(***************************************************************************)
(* The registry (collaborator): installs a series unless a series with the *)
(* same identity is already installed, in which case MustRegister panics.  *)
(***************************************************************************)
RegistryRejects(reg, s) == \E r \in reg : r.id = Identity(s)
RegistryInstall(reg, s) == reg \cup {[id |-> Identity(s), owner |-> "dockershim"]}

ForeignSeries(i) == [id |-> Identity(AllSeries[i]), owner |-> "foreign"]

VARIABLES
    pc,            \* pc[p]: where goroutine p is inside Register()
    calls,         \* calls[p]: calls to Register() p has started
    pos,           \* pos[p]: statement of the body p executes next
    panicking,     \* panicking[p]: p unwinds a panic of MustRegister
    done,          \* registerMetrics.done
    m,             \* registerMetrics.m: holder of the mutex, 0 when free
    registry,      \* series installed in the shared registry
    foreign,       \* series other packages had installed before the first call
    installCount,  \* installCount[i]: successful installations of AllSeries[i]
    tries,         \* tries[i]: MustRegister calls made for AllSeries[i]
    triesBy,       \* calls <<p, n>> that made a MustRegister call
    passes,        \* times the body was entered
    endedBefore,   \* calls that had ended when a body was entered
    rejectedAt,    \* index of the series whose rejection raised a panic, 0 if none
    rejectedIn,    \* the call <<p, n>> in which that panic was raised
    returnedSet,   \* calls <<p, n>> that returned normally
    panickedSet,   \* calls <<p, n>> that ended in a panic of the caller
    micros,        \* last SinceInMicroseconds call: the time.Since(start) it sampled, its result
    seconds        \* last SinceInSeconds call: the time.Since(start) it sampled, its result

regVars == <<pc, calls, pos, panicking, done, m, registry, foreign, installCount,
             tries, triesBy, passes, endedBefore, rejectedAt, rejectedIn,
             returnedSet, panickedSet>>
timeVars == <<micros, seconds>>
vars == <<regVars, timeVars>>

NoCall == <<0, 0>>
CurrentCall(p) == <<p, calls[p]>>
Ended == returnedSet \cup panickedSet

(***************************************************************************)
(* Initial states.                                                         *)
(***************************************************************************)
ForeignSets ==
    {F \in SUBSET {ForeignSeries(i) : i \in SeriesIdx} : Cardinality(F) <= MaxForeign}

RegInit(F) ==
    /\ pc = [p \in Callers |-> "idle"]
    /\ calls = [p \in Callers |-> 0]
    /\ pos = [p \in Callers |-> 0]
    /\ panicking = [p \in Callers |-> FALSE]
    /\ done = FALSE
    /\ m = 0
    /\ foreign \in F
    /\ registry = foreign
    /\ installCount = [i \in SeriesIdx |-> 0]
    /\ tries = [i \in SeriesIdx |-> 0]
    /\ triesBy = {}
    /\ passes = 0
    /\ endedBefore = 0
    /\ rejectedAt = 0
    /\ rejectedIn = NoCall
    /\ returnedSet = {}
    /\ panickedSet = {}

(***************************************************************************)
(* Register(), step by step.                                               *)
(***************************************************************************)
\* A goroutine calls Register().
Call(p) ==
    /\ pc[p] = "idle"
    /\ calls[p] < MaxCalls
    /\ calls' = [calls EXCEPT ![p] = @ + 1]
    /\ pc' = [pc EXCEPT ![p] = "fast"]
    /\ UNCHANGED <<pos, panicking, done, m, registry, foreign, installCount, tries,
                   triesBy, passes, endedBefore, rejectedAt, rejectedIn,
                   returnedSet, panickedSet>>
    /\ UNCHANGED timeVars

\* Do, fast path: done is set, Register() returns.
DoFastReturn(p) ==
    /\ pc[p] = "fast"
    /\ FastPathReturns(done)
    /\ pc' = [pc EXCEPT ![p] = "idle"]
    /\ returnedSet' = returnedSet \cup {CurrentCall(p)}
    /\ UNCHANGED <<calls, pos, panicking, done, m, registry, foreign, installCount,
                   tries, triesBy, passes, endedBefore, rejectedAt, rejectedIn,
                   panickedSet>>
    /\ UNCHANGED timeVars

\* Do, fast path: done is not set, go for the mutex.
DoFastMiss(p) ==
    /\ pc[p] = "fast"
    /\ ~FastPathReturns(done)
    /\ pc' = [pc EXCEPT ![p] = "lock"]
    /\ UNCHANGED <<calls, pos, panicking, done, m, registry, foreign, installCount,
                   tries, triesBy, passes, endedBefore, rejectedAt, rejectedIn,
                   returnedSet, panickedSet>>
    /\ UNCHANGED timeVars

\* Do, slow path: o.m.Lock() blocks until the mutex is free.
DoLock(p) ==
    /\ pc[p] = "lock"
    /\ m = 0
    /\ m' = p
    /\ pc' = [pc EXCEPT ![p] = "slow"]
    /\ UNCHANGED <<calls, pos, panicking, done, registry, foreign, installCount,
                   tries, triesBy, passes, endedBefore, rejectedAt, rejectedIn,
                   returnedSet, panickedSet>>
    /\ UNCHANGED timeVars

\* Do, slow path: done is still unset under the mutex, the body starts.
DoSlowRun(p) ==
    /\ pc[p] = "slow"
    /\ SlowPathRuns(done)
    /\ pc' = [pc EXCEPT ![p] = "body"]
    /\ pos' = [pos EXCEPT ![p] = 1]
    /\ done' = (done \/ DoneWhileRunning)
    /\ passes' = passes + 1
    /\ endedBefore' = endedBefore + Cardinality(Ended)
    /\ UNCHANGED <<calls, panicking, m, registry, foreign, installCount, tries,
                   triesBy, rejectedAt, rejectedIn, returnedSet, panickedSet>>
    /\ UNCHANGED timeVars

\* Do, slow path: another caller completed the pass meanwhile.
DoSlowSkip(p) ==
    /\ pc[p] = "slow"
    /\ ~SlowPathRuns(done)
    /\ pc' = [pc EXCEPT ![p] = "unlock"]
    /\ UNCHANGED <<calls, pos, panicking, done, m, registry, foreign, installCount,
                   tries, triesBy, passes, endedBefore, rejectedAt, rejectedIn,
                   returnedSet, panickedSet>>
    /\ UNCHANGED timeVars

\* legacyregistry.MustRegister(series) installs the series.
MustRegisterOK(p) ==
    /\ pc[p] = "body"
    /\ LET i == RegisterBody[pos[p]]
       IN /\ ~RegistryRejects(registry, AllSeries[i])
          /\ registry' = RegistryInstall(registry, AllSeries[i])
          /\ installCount' = [installCount EXCEPT ![i] = @ + 1]
          /\ tries' = [tries EXCEPT ![i] = @ + 1]
    /\ triesBy' = triesBy \cup {CurrentCall(p)}
    /\ pos' = [pos EXCEPT ![p] = @ + 1]
    /\ pc' = [pc EXCEPT ![p] = IF pos[p] = Len(RegisterBody) THEN "deferDone" ELSE "body"]
    /\ UNCHANGED <<calls, panicking, done, m, foreign, passes, endedBefore,
                   rejectedAt, rejectedIn, returnedSet, panickedSet>>
    /\ UNCHANGED timeVars

\* legacyregistry.MustRegister(series) is rejected and panics; the rest of
\* the body is skipped and the deferred calls of Do run.
MustRegisterPanic(p) ==
    /\ pc[p] = "body"
    /\ LET i == RegisterBody[pos[p]]
       IN /\ RegistryRejects(registry, AllSeries[i])
          /\ tries' = [tries EXCEPT ![i] = @ + 1]
          /\ rejectedAt' = IF rejectedAt = 0 THEN i ELSE rejectedAt
    /\ rejectedIn' = IF rejectedAt = 0 THEN CurrentCall(p) ELSE rejectedIn
    /\ triesBy' = triesBy \cup {CurrentCall(p)}
    /\ panicking' = [panicking EXCEPT ![p] = TRUE]
    /\ pc' = [pc EXCEPT ![p] = "deferDone"]
    /\ UNCHANGED <<calls, pos, done, m, registry, foreign, installCount, passes,
                   endedBefore, returnedSet, panickedSet>>
    /\ UNCHANGED timeVars

\* Do: the deferred store of done, after the body returned or panicked.
DeferDone(p) ==
    /\ pc[p] = "deferDone"
    /\ done' = IF panicking[p] THEN DoneAfterPanic ELSE TRUE
    /\ pc' = [pc EXCEPT ![p] = "unlock"]
    /\ UNCHANGED <<calls, pos, panicking, m, registry, foreign, installCount, tries,
                   triesBy, passes, endedBefore, rejectedAt, rejectedIn,
                   returnedSet, panickedSet>>
    /\ UNCHANGED timeVars

\* Do: the deferred o.m.Unlock(), then Register() returns.
UnlockReturn(p) ==
    /\ pc[p] = "unlock"
    /\ ~panicking[p] \/ RegisterRecovers
    /\ m' = 0
    /\ pc' = [pc EXCEPT ![p] = "idle"]
    /\ panicking' = [panicking EXCEPT ![p] = FALSE]
    /\ returnedSet' = returnedSet \cup {CurrentCall(p)}
    /\ UNCHANGED <<calls, pos, done, registry, foreign, installCount, tries, triesBy,
                   passes, endedBefore, rejectedAt, rejectedIn, panickedSet>>
    /\ UNCHANGED timeVars

\* Do: the deferred o.m.Unlock(), then the panic leaves Register(); the
\* goroutine goes on only if its caller recovers.
UnlockPanic(p) ==
    /\ pc[p] = "unlock"
    /\ panicking[p] /\ ~RegisterRecovers
    /\ m' = 0
    /\ pc' = [pc EXCEPT ![p] = "idle"]
    /\ panicking' = [panicking EXCEPT ![p] = FALSE]
    /\ panickedSet' = panickedSet \cup {CurrentCall(p)}
    /\ UNCHANGED <<calls, pos, done, registry, foreign, installCount, tries, triesBy,
                   passes, endedBefore, rejectedAt, rejectedIn, returnedSet>>
    /\ UNCHANGED timeVars

Register(p) ==
    \/ Call(p)
    \/ DoFastReturn(p)
    \/ DoFastMiss(p)
    \/ DoLock(p)
    \/ DoSlowRun(p)
    \/ DoSlowSkip(p)
    \/ MustRegisterOK(p)
    \/ MustRegisterPanic(p)
    \/ DeferDone(p)
    \/ UnlockReturn(p)
    \/ UnlockPanic(p)

(***************************************************************************)
(* Elapsed-time helpers.  A time.Duration is an int64 count of nanoseconds *)
(* and does not fit the model checker's integers, so a duration is kept as *)
(* sign and magnitude, the magnitude as seven base-1000 digits, least      *)
(* significant first: digit 1 is nanoseconds, digit 2 microseconds, digit  *)
(* 3 milliseconds, digits 4..7 seconds.                                    *)
(***************************************************************************)
Base == 1000

MaxInt64Mag == <<807, 775, 854, 36, 372, 223, 9>>    \* 2^63 - 1
MinInt64Mag == <<808, 775, 854, 36, 372, 223, 9>>    \* 2^63
Two53 == <<992, 740, 254, 199, 7, 9, 0>>             \* 2^53
ZeroMag == <<0, 0, 0, 0, 0, 0, 0>>

\* -1, 0 or 1 as a < b, a = b or a > b, comparing digits i, i-1, .. 1.
RECURSIVE MagCmpFrom(_, _, _)
MagCmpFrom(a, b, i) ==
    IF i = 0 THEN 0
    ELSE IF a[i] < b[i] THEN -1
    ELSE IF a[i] > b[i] THEN 1
    ELSE MagCmpFrom(a, b, i - 1)

MagCmp(a, b) == MagCmpFrom(a, b, Len(a))

RECURSIVE MagSucc(_)
MagSucc(a) ==
    IF a = <<>> THEN <<>>
    ELSE IF Head(a) + 1 < Base THEN <<Head(a) + 1>> \o Tail(a)
    ELSE <<0>> \o MagSucc(Tail(a))

RECURSIVE MagPred(_)
MagPred(a) ==
    IF a = <<>> THEN <<>>
    ELSE IF Head(a) > 0 THEN <<Head(a) - 1>> \o Tail(a)
    ELSE <<Base - 1>> \o MagPred(Tail(a))

\* a * 1000, for a magnitude whose top digit is 0.
Times1000(a) == <<0>> \o SubSeq(a, 1, Len(a) - 1)

Signed(neg, mag) == [neg |-> neg /\ mag # ZeroMag, mag |-> mag]

\* int64 division d / time.Microsecond.Nanoseconds(): Go's quotient is
\* truncated toward zero, which drops the nanosecond digit of the magnitude.
Int64DivMicrosecond(d) == Signed(d.neg, Tail(d.mag) \o <<0>>)

\* float64(x) for an int64 x with |x| < 2^54 (which holds of every quotient
\* above): exact up to 2^53; from there on a float64 holds even integers only
\* and an odd x goes to the neighbour whose mantissa is even, the multiple of 4.
Float64(x) ==
    IF MagCmp(x.mag, Two53) <= 0 THEN x
    ELSE IF x.mag[1] % 2 = 0 THEN x
    ELSE IF x.mag[1] % 4 = 1 THEN Signed(x.neg, MagPred(x.mag))
    ELSE Signed(x.neg, MagSucc(x.mag))

\* SinceInMicroseconds(start), for d = time.Since(start).
SinceInMicrosecondsRounded(d) ==
    LET q == Int64DivMicrosecond(d)
    IN Float64(IF d.mag[1] * 2 >= Base THEN Signed(d.neg, MagSucc(q.mag)) ELSE q)
SinceInMicroseconds(d) == Float64(Int64DivMicrosecond(d))

(***************************************************************************)
(* float64 arithmetic of Duration.Seconds().  A float64 is kept as sign,   *)
(* 53-bit mantissa (six base-1000 digits, 2^52 <= mant < 2^53 unless the   *)
(* value is zero) and binary exponent: its value is mant * 2^exp.          *)
(***************************************************************************)
Two52 == <<496, 370, 627, 599, 503, 4>>              \* 2^52
Two54 == <<984, 481, 509, 398, 14, 18>>              \* 2^54
HalfSecond == <<0, 0, 500>>                          \* 1e9 / 2
ZeroMant == <<0, 0, 0, 0, 0, 0>>
Float64Zero == [neg |-> FALSE, mant |-> ZeroMant, exp |-> 0]

PadTo(a, n) == IF Len(a) >= n THEN a ELSE a \o [i \in 1..(n - Len(a)) |-> 0]

\* Comparison and sum of magnitudes of any lengths.
CmpPad(a, b) ==
    LET n == IF Len(a) >= Len(b) THEN Len(a) ELSE Len(b)
    IN MagCmpFrom(PadTo(a, n), PadTo(b, n), n)

RECURSIVE AddCarry(_, _, _)
AddCarry(a, b, c) ==
    IF a = <<>> THEN (IF c = 0 THEN <<>> ELSE <<c>>)
    ELSE LET v == Head(a) + Head(b) + c
         IN <<v % Base>> \o AddCarry(Tail(a), Tail(b), v \div Base)

MagAdd(a, b) ==
    LET n == IF Len(a) >= Len(b) THEN Len(a) ELSE Len(b)
    IN AddCarry(PadTo(a, n), PadTo(b, n), 0)

MagDouble(a) == MagAdd(a, a)

\* a * c, for a factor c up to 2^16.
RECURSIVE MulCarry(_, _, _)
MulCarry(a, c, carry) ==
    IF a = <<>>
    THEN (IF carry = 0 THEN <<>> ELSE <<carry % Base>> \o MulCarry(a, c, carry \div Base))
    ELSE <<(Head(a) * c + carry) % Base>>
         \o MulCarry(Tail(a), c, (Head(a) * c + carry) \div Base)

MulSmall(a, c) == MulCarry(a, c, 0)

\* Quotient and remainder of a by a divisor c up to 2^16, digit by digit
\* from the most significant one.
DivStep(hi, x, c) ==
    [q |-> <<(hi.r * Base + x) \div c>> \o hi.q, r |-> (hi.r * Base + x) % c]

RECURSIVE DivSmall(_, _)
DivSmall(a, c) ==
    IF a = <<>> THEN [q |-> <<>>, r |-> 0]
    ELSE DivStep(DivSmall(Tail(a), c), Head(a), c)

\* a \div 2: a digit takes half of itself and half a Base per odd digit above.
MagHalve(a) ==
    [i \in 1..Len(a) |->
        (a[i] + (IF i < Len(a) THEN (a[i + 1] % 2) * Base ELSE 0)) \div 2]

IsOdd(a) == a[1] % 2 = 1
IsZeroMag(a) == \A i \in 1..Len(a) : a[i] = 0

\* a * 2^k.
RECURSIVE MagShiftLeft(_, _)
MagShiftLeft(a, k) ==
    IF k >= 16 THEN MagShiftLeft(MulSmall(a, 65536), k - 16)
    ELSE IF k > 0 THEN MagShiftLeft(MagDouble(a), k - 1)
    ELSE a

Mant(a) == SubSeq(PadTo(a, Len(ZeroMant)), 1, Len(ZeroMant))

\* The float64 nearest to s * 2^e (ties to the even mantissa), for s > 0:
\* s is scaled up to 2^52 (exact), or scaled down below 2^54 keeping whether
\* a one was dropped, and the last halving rounds.  Scaling goes by 16 bits
\* at a time while that does not overshoot, then bit by bit.
RECURSIVE RoundNearestEven(_, _, _)
RoundNearestEven(s, e, sticky) ==
    IF CmpPad(MulSmall(s, 65536), Two52) < 0
    THEN RoundNearestEven(MulSmall(s, 65536), e - 16, sticky)
    ELSE IF CmpPad(s, Two52) < 0 THEN RoundNearestEven(MagDouble(s), e - 1, sticky)
    ELSE IF CmpPad(s, Two53) < 0 THEN [mant |-> Mant(s), exp |-> e]
    ELSE IF CmpPad(s, MulSmall(Two54, 65536)) >= 0
         THEN RoundNearestEven(DivSmall(s, 65536).q, e + 16,
                               sticky \/ DivSmall(s, 65536).r # 0)
    ELSE IF CmpPad(s, Two54) >= 0
         THEN RoundNearestEven(MagHalve(s), e + 1, sticky \/ IsOdd(s))
    ELSE LET h == MagHalve(s)
             up == IsOdd(s) /\ (sticky \/ IsOdd(h))
             r == IF up THEN MagSucc(h) ELSE h
         IN IF CmpPad(r, Two53) = 0 THEN [mant |-> Two52, exp |-> e + 2]
            ELSE [mant |-> Mant(r), exp |-> e + 1]

\* float64(nsec) / 1e9 for 0 < nsec < 1e9: nsec * 2^k is brought to where its
\* quotient by 1e9 (the digits from the fourth on) has 53 bits, and the
\* remainder (the three low digits) decides the rounding against 1e9 / 2.
RECURSIVE DivSecond(_, _)
DivSecond(x, k) ==
    LET q == SubSeq(x, 4, Len(x))
        r == SubSeq(x, 1, 3)
    IN IF CmpPad(MulSmall(q, 65536), Two52) < 0
       THEN DivSecond(MulSmall(x, 65536), k + 16)
       ELSE IF CmpPad(q, Two52) < 0 THEN DivSecond(MagDouble(x), k + 1)
       ELSE LET c == CmpPad(r, HalfSecond)
                up == c > 0 \/ (c = 0 /\ IsOdd(q))
                n == IF up THEN MagSucc(q) ELSE q
            IN IF CmpPad(n, Two53) = 0 THEN [mant |-> Two52, exp |-> 1 - k]
               ELSE [mant |-> Mant(n), exp |-> 0 - k]

\* float64(sec) + f for an integer sec >= 0 and a float64 f in [0, 1): the
\* exact sum, in units of 2^f.exp, rounded to the nearest float64.
Float64Add(sec, f) ==
    IF IsZeroMag(sec) THEN f
    ELSE IF IsZeroMag(f.mant) THEN RoundNearestEven(sec, 0, FALSE)
    ELSE RoundNearestEven(MagAdd(MagShiftLeft(sec, 0 - f.exp), f.mant), f.exp, FALSE)

\* Duration.Seconds() of a duration of magnitude mag: sec := d / Second and
\* nsec := d % Second (digits 4..7 and 1..3), then
\* float64(sec) + float64(nsec) / 1e9.  Both operands carry the sign of d, so
\* the magnitude of the result is the result for the magnitude.
SecondsMag(mag) ==
    LET sec == SubSeq(mag, 4, 7)
        nsec == SubSeq(mag, 1, 3)
        frac == IF IsZeroMag(nsec) THEN [mant |-> ZeroMant, exp |-> 0]
                ELSE DivSecond(nsec, 0)
    IN Float64Add(sec, frac)

\* SinceInSeconds(start), for d = time.Since(start).
SinceInSecondsClamped(d) ==
    IF d.neg \/ IsZeroMag(d.mag) THEN Float64Zero
    ELSE LET r == SecondsMag(d.mag)
         IN [neg |-> FALSE, mant |-> r.mant, exp |-> r.exp]
SinceInSeconds(d) ==
    IF IsZeroMag(d.mag) THEN Float64Zero
    ELSE LET r == SecondsMag(d.mag)
         IN [neg |-> d.neg, mant |-> r.mant, exp |-> r.exp]

\* The values time.Since(start) takes in the model: short durations around
\* the unit boundaries (1 ns, 999 ns, 1 us, 1.999 us, 0.5 s, 1 s, 2 s, 2.5 s,
\* 2.500000999 s), and long ones around 2^53 microseconds and at the ends of
\* the int64 range; each of them positive and negative.
SmallMags ==
    {<<1, 0, 0, 0, 0, 0, 0>>, <<999, 0, 0, 0, 0, 0, 0>>, <<0, 1, 0, 0, 0, 0, 0>>,
     <<999, 1, 0, 0, 0, 0, 0>>, <<0, 0, 500, 0, 0, 0, 0>>, <<0, 0, 0, 1, 0, 0, 0>>,
     <<0, 0, 0, 2, 0, 0, 0>>, <<0, 0, 500, 2, 0, 0, 0>>, <<999, 0, 500, 2, 0, 0, 0>>}
LargeMags ==
    {<<0, 992, 740, 254, 199, 7, 9>>, <<807, 993, 740, 254, 199, 7, 9>>,
     <<0, 995, 740, 254, 199, 7, 9>>, <<807, 999, 740, 254, 199, 7, 9>>,
     MaxInt64Mag}
Durations ==
    {Signed(n, g) : n \in BOOLEAN, g \in SmallMags \cup LargeMags}
    \cup {Signed(FALSE, ZeroMag), Signed(TRUE, MinInt64Mag)}

NoCallYet == [called |-> FALSE]

TimeInit ==
    /\ micros = NoCallYet
    /\ seconds = NoCallYet

\* A call of SinceInMicroseconds(start): time.Since(start) reads the clock at
\* the call, so every call sees an elapsed time of its own.
CallSinceInMicroseconds ==
    \E d \in Durations :
        /\ micros' = [called |-> TRUE, since |-> d, result |-> SinceInMicroseconds(d)]
        /\ UNCHANGED <<seconds, regVars>>

\* A call of SinceInSeconds(start), reading the clock likewise.
CallSinceInSeconds ==
    \E d \in Durations :
        /\ seconds' = [called |-> TRUE, since |-> d, result |-> SinceInSeconds(d)]
        /\ UNCHANGED <<micros, regVars>>

(***************************************************************************)
(* Specifications.  Spec: goroutines calling Register() against a registry *)
(* in which other packages may have installed a colliding series.          *)
(* SpecTime: the elapsed-time helpers.                                     *)
(***************************************************************************)
Init == RegInit(ForeignSets) /\ TimeInit

Next == \E p \in Callers : Register(p)

Spec == Init /\ [][Next]_vars

InitTime == RegInit({{}}) /\ TimeInit

NextTime ==
    \/ CallSinceInMicroseconds
    \/ CallSinceInSeconds

SpecTime == InitTime /\ [][NextTime]_vars

(***************************************************************************)
(* Properties of Register().                                               *)
(***************************************************************************)
Installed(i) ==
    \E r \in registry : r.id = Identity(AllSeries[i]) /\ r.owner = "dockershim"
InstalledSet == {i \in SeriesIdx : installCount[i] >= 1}
AllInstalledOnce == \A i \in SeriesIdx : installCount[i] = 1 /\ Installed(i)
NeverTwice == \A i \in SeriesIdx : installCount[i] <= 1
\* The one pass over the body has been entered and left.
PassEnded == passes = 1 /\ \A p \in Callers : pc[p] \notin {"body", "deferDone"}

\* C1, as stated: whatever the number and interleaving of the calls, no
\* series is installed twice, no call ends in a panic, and once a call has
\* ended each of the eight series is installed exactly once.
C1_InstalledOnceAlways ==
    /\ NeverTwice
    /\ panickedSet = {}
    /\ rejectedAt = 0
    /\ Ended # {} => AllInstalledOnce

\* C1, amended: no series is ever installed twice; and when the registry held
\* no series under one of the eight identities before the first call, no call
\* panics and once a call has ended each series is installed exactly once.
C1_InstalledOnce ==
    /\ NeverTwice
    /\ foreign = {} =>
          /\ panickedSet = {}
          /\ Ended # {} => AllInstalledOnce

C1_Witness ==
    /\ foreign = {}
    /\ Cardinality(returnedSet) = NumCallers * MaxCalls
    /\ AllInstalledOnce

\* C2, as stated: one pass at most, and no caller returns from Register()
\* before all eight series are installed.
C2_ReturnAfterAllInstalled ==
    /\ passes <= 1
    /\ returnedSet # {} => \A i \in SeriesIdx : Installed(i)

\* C2, amended: one pass at most, and no call ends before that pass has
\* ended; all eight series are installed by then when the registry held none
\* of their identities, otherwise the pass ended in a panic and the callers
\* return with the series before the rejected one installed.
C2_ReturnAfterPass ==
    /\ passes <= 1
    /\ Ended # {} => PassEnded /\ done
    /\ (returnedSet # {} /\ foreign = {}) => \A i \in SeriesIdx : Installed(i)
    /\ (returnedSet # {} /\ foreign # {}) => rejectedAt # 0 /\ InstalledSet = 1..(rejectedAt - 1)

\* Two goroutines inside Register() at once: one in the middle of the body,
\* the other blocked on the mutex.
C2_Witness ==
    \E p, q \in Callers :
        /\ p # q
        /\ pc[p] = "body" /\ pos[p] > 1
        /\ pc[q] = "lock"

\* C3: only one call ever makes an installation attempt, it starts its pass
\* before any call has ended, and every other call ends by returning
\* normally; so a call other than the first one changes nothing.
C3_LaterCallsNoOp ==
    /\ Cardinality(triesBy) <= 1
    /\ passes <= 1
    /\ endedBefore = 0
    /\ panickedSet \subseteq triesBy
    /\ \A c \in Ended \ triesBy : c \in returnedSet

C3_Witness ==
    /\ Cardinality(triesBy) = 1
    /\ Cardinality(returnedSet \ triesBy) >= 2
    /\ \E c \in returnedSet \ triesBy : c[2] = 1

\* C4: when the registry rejects a series, the call in which it happened never
\* returns normally but ends in a panic of its caller, and no MustRegister
\* call follows the rejected one, in that call or in a later one.
C4_RejectionFatal ==
    rejectedAt # 0 =>
        /\ rejectedIn \notin returnedSet
        /\ rejectedIn \in Ended => rejectedIn \in panickedSet
        /\ \A i \in SeriesIdx : tries[i] = IF i <= rejectedAt THEN 1 ELSE 0
        /\ passes = 1

C4_Witness ==
    /\ rejectedAt # 0
    /\ rejectedIn \in panickedSet
    /\ \E c \in returnedSet : c[1] = rejectedIn[1] /\ c[2] > rejectedIn[2]

\* C7: the eight series have pairwise distinct (subsystem, name) identities,
\* so in a registry that held none of them no MustRegister of the pass is
\* rejected.
C7_DistinctIdentities ==
    /\ \A i, j \in SeriesIdx : i # j => Identity(AllSeries[i]) # Identity(AllSeries[j])
    /\ foreign = {} => rejectedAt = 0 /\ (\A p \in Callers : ~panicking[p])

C7_Witness ==
    /\ foreign = {}
    /\ Cardinality(registry) = NumSeries
    /\ \A i \in SeriesIdx : tries[i] = 1 /\ Installed(i)

\* C10: the series are installed in the order current latency, count, errors,
\* timeouts, deprecated latency, count, errors, timeouts; after the rejection
\* of the k-th the first k-1 stay installed and no other is, the gate is
\* consumed when that call has ended, and no later call attempts anything.
C10_PartialRegistration ==
    /\ \E k \in 0..NumSeries : InstalledSet = 1..k
    /\ rejectedAt # 0 =>
          /\ InstalledSet = 1..(rejectedAt - 1)
          /\ \A i \in SeriesIdx : Installed(i) <=> i < rejectedAt
          /\ rejectedIn \in Ended => done
          /\ triesBy = {rejectedIn}
          /\ tries[rejectedAt] = 1

C10_Witness ==
    /\ rejectedAt = 3
    /\ InstalledSet = {1, 2}
    /\ done
    /\ \E c \in returnedSet : c[1] = rejectedIn[1] /\ c[2] > rejectedIn[2]

(***************************************************************************)
(* Properties of the elapsed-time helpers.                                 *)
(***************************************************************************)
\* r is d / 1000 truncated toward zero: |r| * 1000 <= |d| < (|r| + 1) * 1000,
\* and r has the sign of d unless it is zero.
TruncatedQuotient(d, r) ==
    /\ MagCmp(Times1000(r.mag), d.mag) <= 0
    /\ MagCmp(d.mag, Times1000(MagSucc(r.mag))) < 0
    /\ r.neg = (d.neg /\ r.mag # ZeroMag)

\* (2^53 + 1) * 1000 - 1 nanoseconds: the longest duration whose microsecond
\* count is at most 2^53.
Two53Micros == <<999, 992, 740, 254, 199, 7, 9>>

\* C5, as stated: for every elapsed time the result is the quotient by 1000
\* truncated toward zero, never above a non-negative elapsed time.
C5_TruncatedAlways ==
    micros.called => TruncatedQuotient(micros.since, micros.result)

\* C5, amended: the result is the truncated quotient whenever that quotient is
\* at most 2^53 in magnitude; for a longer elapsed time it is the float64
\* next to the truncated quotient, at most one microsecond off it.
C5_TruncatedBelowTwo53 ==
    micros.called =>
        LET d == micros.since
            r == micros.result
        IN IF MagCmp(d.mag, Two53Micros) <= 0
           THEN TruncatedQuotient(d, r)
           ELSE \/ TruncatedQuotient(d, r)
                \/ TruncatedQuotient(d, Signed(r.neg, MagPred(r.mag)))
                \/ TruncatedQuotient(d, Signed(r.neg, MagSucc(r.mag)))

\* 2.500000999 seconds give 2500000 microseconds.
C5_Witness ==
    /\ micros.called
    /\ micros.since = [neg |-> FALSE, mag |-> <<999, 0, 500, 2, 0, 0, 0>>]
    /\ micros.result = [neg |-> FALSE, mag |-> <<0, 500, 2, 0, 0, 0, 0>>]

\* OneUlp(d, r): the float64 r is within one unit in its last place of
\* d / 1e9, that is | r.mant * 1e9 - |d| * 2^(-r.exp) | <= 1e9.
OneUlp(d, r) ==
    LET a == <<0, 0, 0>> \o r.mant
        b == MagShiftLeft(d.mag, 0 - r.exp)
        tol == <<0, 0, 0, 1>>
    IN /\ r.exp <= 0
       /\ CmpPad(a, MagAdd(b, tol)) <= 0
       /\ CmpPad(b, MagAdd(a, tol)) <= 0

\* C6: for a negative elapsed time the microsecond result is not positive, is
\* negative from one microsecond on and is less than two microseconds off
\* the elapsed time; the seconds result is negative, not zero, and the float64
\* within one unit in the last place of the elapsed time in seconds.
C6_NegativePassThrough ==
    /\ (micros.called /\ micros.since.neg) =>
          LET d == micros.since
              r == micros.result
          IN /\ r.neg \/ r.mag = ZeroMag
             /\ MagCmp(d.mag, <<0, 1, 0, 0, 0, 0, 0>>) >= 0 => r.neg
             /\ MagCmp(d.mag, Times1000(MagSucc(MagSucc(r.mag)))) < 0
             /\ r.mag # ZeroMag => MagCmp(Times1000(MagPred(r.mag)), d.mag) <= 0
    /\ (seconds.called /\ seconds.since.neg) =>
          /\ seconds.result.neg
          /\ seconds.result.mant # ZeroMant
          /\ OneUlp(seconds.since, seconds.result)

\* start one second in the future: -1.0 is -(2^52) * 2^(-52).
C6_Witness ==
    /\ seconds.called
    /\ seconds.since = [neg |-> TRUE, mag |-> <<0, 0, 0, 1, 0, 0, 0>>]
    /\ seconds.result = [neg |-> TRUE, mant |-> Two52, exp |-> 0 - 52]
    /\ micros.called
    /\ micros.since = seconds.since
    /\ micros.result = [neg |-> TRUE, mag |-> <<0, 0, 1, 0, 0, 0, 0>>]

====
